---- MODULE Spec2Model ----
(***************************************************************************)
(* Model of the notification dispatcher of src/interfaces/interface.go:    *)
(* the three backends (EmailNotificador, SMSNotificador, SlackNotificador),*)
(* their record stores, and ServicioNotificaciones with EnviarATodos and   *)
(* EnviarConValidacion.                                                    *)
(*                                                                         *)
(* A Go string is the sequence of its bytes, one one-character TLA+ string *)
(* per byte.  An error value is the sequence of the parts of its text      *)
(* (fmt.Errorf("validación falló: %v", err) puts a part in front); the nil *)
(* error is the empty sequence.  Message texts are written without accents.*)
(*                                                                         *)
(* The program is sequential: one call is in progress at a time.  pc names *)
(* the operation in progress and fase the position inside it: at the head  *)
(* of the loop over the backends, or inside a backend's EnviarNotificacion *)
(* at its time.Sleep.                                                      *)
(***************************************************************************)
EXTENDS Integers, Sequences, FiniteSets, TLC

\* ------------------------------------------------------------------ bounds
MaxNotificadores == 2   \* registered backends (len(sn.notificadores))
MaxEnvios        == 2   \* EnviarNotificacion calls that reach their time.Sleep

\* ------------------------------------------------------- program constants
LimiteMensajeEmail == 1000
LimiteMensajeSMS   == 160
LongitudMinimaSMS  == 10
ModuloFalloEmail   == 10
ModuloFalloSMS     == 20
LatenciaEmail      == 100000000   \* 100 * time.Millisecond, in nanoseconds
LatenciaSMS        == 50000000
LatenciaSlack      == 10000000
IntentosInicial    == 1

\* ------------------------------------------------------------------ strings
Rep(c, n) == [k \in 1..n |-> c]

\* strings.Contains(s, c) for a one-byte c
Contains(s, c) == \E k \in 1..Len(s) : s[k] = c

\* strings.HasPrefix(s, c) for a one-byte c
HasPrefix(s, c) == Len(s) >= 1 /\ s[1] = c

\* the destinations and messages the calls are made with
DestUsuarioX  == <<"u","s","e","r","@","x",".","c","o","m">>
DestUsuario   == <<"u","s","e","r">>
DestAmbos     == <<"+","u","s","e","r","@","x",".","c","o","m">>
DestVacio     == <<>>
Destinatarios == {DestUsuarioX, DestUsuario, DestAmbos, DestVacio}

MsgHi       == <<"h","i">>
MsgVacio    == <<>>
MsgLargoSMS == Rep("a", LimiteMensajeSMS + 1)
MsgLargo    == Rep("a", LimiteMensajeEmail + 1)
Mensajes    == {MsgHi, MsgVacio, MsgLargoSMS, MsgLargo}

\* ------------------------------------------------------------------- errors
Nil    == "nil"     \* a nil interface value or pointer
NilErr == <<>>      \* the nil error

ErrMensajeVacio     == <<"mensaje no puede estar vacio">>
ErrMensajeLargo     == <<"mensaje muy largo (maximo 1000 caracteres)">>
ErrEmailSinArroba   == <<"email invalido: debe contener @">>
ErrEmailSinDominio  == <<"email invalido: debe contener dominio">>
ErrFalloEmail       == <<"fallo al enviar email">>
ErrSMSVacio         == <<"mensaje SMS no puede estar vacio">>
ErrSMSLargo         == <<"mensaje SMS muy largo (maximo 160 caracteres)">>
ErrTelefonoCorto    == <<"numero de telefono muy corto">>
ErrTelefonoPrefijo  == <<"numero debe empezar con + o 0">>
ErrFalloSMS         == <<"fallo al enviar SMS">>
ErrNoEncontrada     == <<"notificacion no encontrada">>
ErrSMSNoEncontrado  == <<"SMS no encontrado">>

\* fmt.Errorf("validación falló: %v", err), fmt.Errorf("destinatario inválido: %v", err)
ErrValidacionFallo(err)      == <<"validacion fallo: ">> \o err
ErrDestinatarioInvalido(err) == <<"destinatario invalido: ">> \o err

\* --------------------------------------------------------- backends, types
\* the backend objects the program constructs, as in main: one of each type.
\* A backend may be registered more than once.
Instancias == {"email1", "sms1", "slack1"}

Email == "email"
SMS   == "sms"
Slack == "slack"

Pendiente == "pendiente"
Enviada   == "enviada"
Fallida   == "fallida"
Entregada == "entregada"

Tipo(n) == CASE n = "email1"               -> Email
             [] n = "sms1"                 -> SMS
             [] OTHER                      -> Slack

\* fmt.Sprintf("%T", notificador)
TipoNombre(n) == CASE Tipo(n) = Email -> "*main.EmailNotificador"
                   [] Tipo(n) = SMS   -> "*main.SMSNotificador"
                   [] OTHER           -> "*main.SlackNotificador"

\* notificador.(ValidadorMensaje), n.(Rastreador), n.(Logger)
ImplementaValidador(n)  == Tipo(n) \in {Email, SMS}
ImplementaRastreador(n) == Tipo(n) \in {Email, SMS}
ImplementaLogger(n)     == Tipo(n) \in {Email, SMS}

Rastreadores == {n \in Instancias : ImplementaRastreador(n)}

\* the Logger the service is given, as in main: servicio.EstablecerLogger(email)
Loggers == {"email1"}

\* --------------------------------------------------------------- validation
EmailValidarMensaje(mensaje) ==
    IF Len(mensaje) = 0 THEN ErrMensajeVacio
    ELSE IF Len(mensaje) > LimiteMensajeEmail THEN ErrMensajeLargo
    ELSE NilErr

\* as EmailValidarDestinatario, with strings.HasPrefix where Contains belongs
EmailValidarDestinatarioPrefijo(destinatario) ==
    IF ~HasPrefix(destinatario, "@") THEN ErrEmailSinArroba
    ELSE IF ~HasPrefix(destinatario, ".") THEN ErrEmailSinDominio
    ELSE NilErr

EmailValidarDestinatario(destinatario) ==
    IF ~Contains(destinatario, "@") THEN ErrEmailSinArroba
    ELSE IF ~Contains(destinatario, ".") THEN ErrEmailSinDominio
    ELSE NilErr

\* as SMSValidarMensaje, but with the limit of the email backend
SMSValidarMensajeLimiteEmail(mensaje) ==
    IF Len(mensaje) = 0 THEN ErrSMSVacio
    ELSE IF Len(mensaje) > LimiteMensajeEmail THEN ErrSMSLargo
    ELSE NilErr

SMSValidarMensaje(mensaje) ==
    IF Len(mensaje) = 0 THEN ErrSMSVacio
    ELSE IF Len(mensaje) > LimiteMensajeSMS THEN ErrSMSLargo
    ELSE NilErr

SMSValidarDestinatario(destinatario) ==
    IF Len(destinatario) < LongitudMinimaSMS THEN ErrTelefonoCorto
    ELSE IF ~HasPrefix(destinatario, "+") /\ ~HasPrefix(destinatario, "0")
         THEN ErrTelefonoPrefijo
    ELSE NilErr

\* the ValidadorMensaje methods, dispatched on the dynamic type
ValidarMensaje(n, mensaje) ==
    IF Tipo(n) = Email THEN EmailValidarMensaje(mensaje) ELSE SMSValidarMensaje(mensaje)

ValidarDestinatario(n, destinatario) ==
    IF Tipo(n) = Email THEN EmailValidarDestinatario(destinatario)
    ELSE SMSValidarDestinatario(destinatario)

\* -------------------------------------------------------------------- state
VARIABLES
    notificadores,   \* sn.notificadores: the registered backends, in order
    logger,          \* sn.logger: a Logger or Nil
    registros,       \* registros[n]: the map id -> record of backend n
    reloj,           \* the wall clock, time.Now().UnixNano()
    pc,              \* "idle", "todos", "validacion" or "directo"
    fase,            \* "bucle" (loop head) or "envio" (inside EnviarNotificacion)
    idx,             \* position of the range loop over sn.notificadores
    dest, msg,       \* the arguments of the call in progress
    resultados,      \* the map being built by the dispatch call in progress
    actual,          \* the backend whose EnviarNotificacion is in progress
    regActual,       \* the id of the record `registro` points to
    retorno,         \* what the last finished call returned
    bitacora,        \* the Log calls and stdout lines of the current operation
    invocados,       \* the backends whose EnviarNotificacion the current
                     \* dispatch call has invoked, in order
    envio,           \* the last EnviarNotificacion call: backend, arguments,
                     \* store size at the call, whether it returned, its error
    historial,       \* the finished EnviarNotificacion calls that made a record
    consulta,        \* the last ObtenerEstadisticas call, backend and result,
                     \* while no EnviarNotificacion call on that backend
                     \* has followed it
    alInicio,        \* the record stores as they were when the dispatch call
                     \* in progress began
    enviosHechos     \* number of EnviarNotificacion calls that reached Sleep

vars == <<notificadores, logger, registros, reloj, pc, fase, idx, dest, msg,
          resultados, actual, regActual, retorno, bitacora, invocados, envio,
          historial, consulta, alInicio, enviosHechos>>

\* ---------------------------------------------------------------- Go maps
MapaVacio == [k \in {} |-> k]

\* m[k] = v
MapPut(m, k, v) == [x \in (DOMAIN m) \cup {k} |-> IF x = k THEN v ELSE m[x]]

\* ------------------------------------------------------- EnviarNotificacion
\* as ValidacionInterna, but the Slack backend checks its input like the others
ValidacionInternaTodos(n, destinatario, mensaje) ==
    IF ValidarDestinatario(n, destinatario) # NilErr
    THEN ValidarDestinatario(n, destinatario)
    ELSE ValidarMensaje(n, mensaje)

\* as ValidacionInterna, but the message is checked before the destination
ValidacionInternaMensajePrimero(n, destinatario, mensaje) ==
    IF Tipo(n) = Slack THEN NilErr
    ELSE IF ValidarMensaje(n, mensaje) # NilErr
         THEN ValidarMensaje(n, mensaje)
    ELSE ValidarDestinatario(n, destinatario)

\* the checks at the head of EnviarNotificacion: destination, then message;
\* SlackNotificador.EnviarNotificacion checks nothing
ValidacionInterna(n, destinatario, mensaje) ==
    IF Tipo(n) = Slack THEN NilErr
    ELSE IF ValidarDestinatario(n, destinatario) # NilErr
         THEN ValidarDestinatario(n, destinatario)
    ELSE ValidarMensaje(n, mensaje)

\* fmt.Sprintf("email_%d", t), fmt.Sprintf("sms_%d", t)
IdRegistro(n, t) == <<IF Tipo(n) = Email THEN "email_" ELSE "sms_", t>>

NoId == <<>>

NuevoRegistro(n, destinatario, mensaje, t) ==
    [ID           |-> IdRegistro(n, t),
     Tipo         |-> Tipo(n),
     Destinatario |-> destinatario,
     Mensaje      |-> mensaje,
     Estado       |-> Pendiente,
     Timestamp    |-> t,
     Intentos     |-> IntentosInicial,
     Error        |-> ""]

\* as RegistrosTrasCrear, but the new record is never put in the map
RegistrosSinCrear(n, destinatario, mensaje) == registros

\* as RegistrosTrasCrear, but all the backends write to one shared map
RegistrosTrasCrearCompartido(n, destinatario, mensaje) ==
    IF ImplementaRastreador(n)
    THEN [x \in DOMAIN registros |->
              MapPut(registros[x], IdRegistro(n, reloj),
                     NuevoRegistro(n, destinatario, mensaje, reloj))]
    ELSE registros

\* e.registros[id] = registro (a Slack backend keeps no records)
RegistrosTrasCrear(n, destinatario, mensaje) ==
    IF ImplementaRastreador(n)
    THEN [registros EXCEPT ![n] =
              MapPut(@, IdRegistro(n, reloj),
                     NuevoRegistro(n, destinatario, mensaje, reloj))]
    ELSE registros

\* as Latencia, but EnviarNotificacion does not sleep
LatenciaNula(n) == 0

Latencia(n) == CASE Tipo(n) = Email -> LatenciaEmail
                 [] Tipo(n) = SMS   -> LatenciaSMS
                 [] OTHER           -> LatenciaSlack

\* time.Now().UnixNano()%10 == 0, time.Now().UnixNano()%20 == 0, read at t
FalloSimulado(n, t) == CASE Tipo(n) = Email -> t % ModuloFalloEmail = 0
                         [] Tipo(n) = SMS   -> t % ModuloFalloSMS = 0
                         [] OTHER           -> FALSE

\* as ErrorDeEnvio, but the failure is swallowed: EnviarNotificacion returns nil
ErrorDeEnvioNulo(n) == NilErr

ErrorDeEnvio(n)   == IF Tipo(n) = Email THEN ErrFalloEmail ELSE ErrFalloSMS
ErrorRegistro(n)  == IF Tipo(n) = Email THEN "Servidor SMTP no disponible"
                     ELSE "Numero no valido"

\* as RegistroTerminado, but a failure sets only the error text
RegistroTerminadoSinEstado(n, r, falla) ==
    IF falla THEN [r EXCEPT !.Error = ErrorRegistro(n)]
    ELSE [r EXCEPT !.Estado = Enviada]

\* registro.Estado = Fallida; registro.Error = ...   or   registro.Estado = Enviada
RegistroTerminado(n, r, falla) ==
    IF falla THEN [r EXCEPT !.Estado = Fallida, !.Error = ErrorRegistro(n)]
    ELSE [r EXCEPT !.Estado = Enviada]

\* as RegistrosTrasEnviar, but the record of a failed attempt is dropped
RegistrosTrasEnviarBorrando(n, id, falla) ==
    IF ~ImplementaRastreador(n) THEN registros
    ELSE IF falla
         THEN [registros EXCEPT ![n] = [x \in (DOMAIN @) \ {id} |-> @[x]]]
    ELSE [registros EXCEPT ![n][id] = RegistroTerminado(n, @, falla)]

RegistrosTrasEnviar(n, id, falla) ==
    IF ImplementaRastreador(n)
    THEN [registros EXCEPT ![n][id] = RegistroTerminado(n, @, falla)]
    ELSE registros

\* ----------------------------------------------------------------- logging
\* n.Log(nivel, texto): one line on stdout, tagged with the receiver
LogLinea(n, nivel, texto) == <<n, nivel, texto>>

\* the lines EnviarNotificacion prints before its Sleep
LineasAlEmpezar(n, destinatario, mensaje) ==
    CASE Tipo(n) = Email ->
             <<LogLinea(n, "INFO", <<"Enviando email a ">> \o destinatario)>>
      [] Tipo(n) = SMS ->
             <<LogLinea(n, "INFO", <<"Enviando SMS a ">> \o destinatario)>>
      [] OTHER ->
             <<LogLinea(n, "stdout",
                        <<"Slack -> ">> \o destinatario \o <<" | ">> \o mensaje)>>

\* the lines EnviarNotificacion prints after its Sleep
LineasAlTerminar(n, id, falla) ==
    CASE Tipo(n) = Slack -> <<>>
      [] falla -> <<LogLinea(n, "ERROR", <<ErrorRegistro(n)>>)>>
      [] OTHER -> <<LogLinea(n, "INFO",
                             <<"enviado exitosamente: ", id[1], ToString(id[2])>>)>>

\* as LineasDelServicio, but only a failure is reported
LineasDelServicioSoloErrores(n, err) ==
    IF logger = Nil \/ err = NilErr THEN <<>>
    ELSE <<LogLinea(logger, "ERROR", <<TipoNombre(n), " fallo: ">> \o err)>>

\* EnviarATodos after each EnviarNotificacion: sn.logger.LogError / LogInfo
LineasDelServicio(n, err) ==
    IF logger = Nil THEN <<>>
    ELSE IF err # NilErr
         THEN <<LogLinea(logger, "ERROR", <<TipoNombre(n), " fallo: ">> \o err)>>
    ELSE <<LogLinea(logger, "INFO", <<TipoNombre(n), " exito">>)>>

\* ---------------------------------------------------------------- Rastreador
Contar(regs, estado) == Cardinality({id \in DOMAIN regs : regs[id].Estado = estado})

\* as EmailObtenerEstadisticas, but stats["total"]++ sits in the Enviada case
EmailObtenerEstadisticasTotalEnviadas(regs) ==
    [total      |-> Contar(regs, Enviada),
     enviadas   |-> Contar(regs, Enviada),
     fallidas   |-> Contar(regs, Fallida),
     pendientes |-> Contar(regs, Pendiente)]

EmailObtenerEstadisticas(regs) ==
    [total      |-> Cardinality(DOMAIN regs),
     enviadas   |-> Contar(regs, Enviada),
     fallidas   |-> Contar(regs, Fallida),
     pendientes |-> Contar(regs, Pendiente)]

SMSObtenerEstadisticas(regs) ==
    [total      |-> Cardinality(DOMAIN regs),
     enviados   |-> Contar(regs, Enviada),
     fallidos   |-> Contar(regs, Fallida),
     pendientes |-> Contar(regs, Pendiente)]

ObtenerEstadisticas(n) ==
    IF Tipo(n) = Email THEN EmailObtenerEstadisticas(registros[n])
    ELSE SMSObtenerEstadisticas(registros[n])

\* the (string, error) pair ObtenerEstado returns
ObtenerEstado(n, id) ==
    IF id \in DOMAIN registros[n] THEN <<registros[n][id].Estado, NilErr>>
    ELSE <<"", IF Tipo(n) = Email THEN ErrNoEncontrada ELSE ErrSMSNoEncontrado>>

\* --------------------------------------------------------------------- Init
SinRetorno == [op |-> "ninguna"]
SinEnvio   == [n |-> Nil, fin |-> TRUE, err |-> NilErr]
SinConsulta == [n |-> Nil, valores |-> <<>>]

\* The clock counts nanoseconds from an instant that is a multiple of 20, so
\* that its residues are those of time.Now().UnixNano().  From these readings
\* both outcomes of the simulated failure are reachable at every send.
RelojesIniciales == {19}

\* nanoseconds by which a time.Sleep overruns its duration
Jitters == {0, 1}

Init ==
    /\ notificadores = <<>>
    /\ logger = Nil
    /\ registros = [n \in Rastreadores |-> MapaVacio]
    /\ reloj \in RelojesIniciales
    /\ pc = "idle"
    /\ fase = "bucle"
    /\ idx = 1
    /\ dest = DestVacio
    /\ msg = MsgVacio
    /\ resultados = MapaVacio
    /\ actual = Nil
    /\ regActual = NoId
    /\ retorno = SinRetorno
    /\ bitacora = <<>>
    /\ invocados = <<>>
    /\ envio = SinEnvio
    /\ historial = {}
    /\ consulta = SinConsulta
    /\ alInicio = [n \in Rastreadores |-> MapaVacio]
    /\ enviosHechos = 0

\* ------------------------------------------------------------ configuration
AgregarNotificador(n) ==
    /\ pc = "idle"
    /\ Len(notificadores) < MaxNotificadores
    /\ notificadores' = Append(notificadores, n)
    /\ bitacora' = IF logger # Nil
                   THEN <<LogLinea(logger, "INFO",
                                   <<"Notificador agregado: ", TipoNombre(n)>>)>>
                   ELSE <<>>
    /\ pc' = "agregar"
    /\ UNCHANGED <<logger, registros, reloj, fase, idx, dest, msg, resultados,
                   actual, regActual, retorno, invocados, envio, historial,
                   consulta, alInicio,
                   enviosHechos>>

EstablecerLogger(l) ==
    /\ pc = "idle"
    /\ logger # l
    /\ logger' = l
    /\ UNCHANGED <<notificadores, registros, reloj, pc, fase, idx, dest, msg,
                   resultados, actual, regActual, retorno, bitacora, invocados,
                   envio, historial, consulta, alInicio,
                   enviosHechos>>

\* ------------------------------------------ entering EnviarNotificacion
\* len(n.registros); a Slack backend has no store
Tamano(n) == IF ImplementaRastreador(n) THEN Cardinality(DOMAIN registros[n]) ELSE 0

\* The part of n.EnviarNotificacion(destinatario, mensaje) up to its Sleep,
\* for a call the checks at its head let through: the record is created
\* Pendiente and the first line is printed.
EntrarEnvio(n, destinatario, mensaje) ==
    /\ registros' = RegistrosTrasCrear(n, destinatario, mensaje)
    /\ bitacora' = bitacora \o LineasAlEmpezar(n, destinatario, mensaje)
    /\ actual' = n
    /\ regActual' = IF ImplementaRastreador(n) THEN IdRegistro(n, reloj) ELSE NoId
    /\ fase' = "envio"
    /\ enviosHechos' = enviosHechos + 1
    /\ envio' = [n |-> n, destinatario |-> destinatario, mensaje |-> mensaje,
                 antes |-> Tamano(n),
                 id |-> IF ImplementaRastreador(n) THEN IdRegistro(n, reloj) ELSE NoId,
                 fin |-> FALSE, err |-> NilErr]
    /\ consulta' = IF consulta.n = n THEN SinConsulta ELSE consulta

\* n.EnviarNotificacion(destinatario, mensaje) returning err from the checks
\* at its head: nothing is stored or printed by the backend.
EnvioRechazado(n, destinatario, mensaje, err) ==
    /\ envio' = [n |-> n, destinatario |-> destinatario, mensaje |-> mensaje,
                 antes |-> Tamano(n), id |-> NoId,
                 fin |-> TRUE, err |-> err]
    /\ consulta' = IF consulta.n = n THEN SinConsulta ELSE consulta
    /\ UNCHANGED <<registros, actual, regActual, fase, enviosHechos>>

\* ----------------------------------------------------------- EnviarATodos
\* as AnotarResultado, but an outcome is stored only for a backend that succeeded
AnotarSoloExito(res, n, err) ==
    IF err = NilErr THEN MapPut(res, TipoNombre(n), err) ELSE res

\* as SiguienteTrasEnvio, but the loop is left at the first error
SiguienteSalvoError(i, err) ==
    IF err # NilErr THEN Len(notificadores) + 1 ELSE i + 1

\* as AnotarResultado, but a failed validation goes to the next backend
\* without storing an outcome
AnotarSalvoRechazo(res, n, err) ==
    IF err # NilErr /\ err[1] \in {"validacion fallo: ", "destinatario invalido: "}
    THEN res
    ELSE MapPut(res, TipoNombre(n), err)

\* as AnotarResultado, but an outcome already stored under the key is kept
AnotarSiAusente(res, n, err) ==
    IF TipoNombre(n) \in DOMAIN res THEN res ELSE MapPut(res, TipoNombre(n), err)

\* resultados[tipoNotificador] = err, with tipoNotificador the %T of n
\* (EnviarATodos and EnviarConValidacion alike)
AnotarResultado(res, n, err) == MapPut(res, TipoNombre(n), err)

\* the range loop goes on to the next backend whatever err is
SiguienteTrasEnvio(i, err) == i + 1

EnviarATodosInicio(destinatario, mensaje) ==
    /\ pc = "idle"
    /\ enviosHechos + Len(notificadores) <= MaxEnvios
    /\ pc' = "todos"
    /\ idx' = 1
    /\ dest' = destinatario
    /\ msg' = mensaje
    /\ resultados' = MapaVacio
    /\ invocados' = <<>>
    /\ alInicio' = registros
    /\ bitacora' = IF logger # Nil
                   THEN <<LogLinea(logger, "INFO",
                                   <<"Enviando a notificadores: ",
                                     ToString(Len(notificadores))>>)>>
                   ELSE <<>>
    /\ UNCHANGED <<notificadores, logger, registros, reloj, fase, actual,
                   regActual, retorno, envio, historial, consulta, enviosHechos>>

\* one turn of the loop of EnviarATodos, up to the Sleep of the backend's
\* EnviarNotificacion or, when the backend's own checks refuse the input,
\* to the end of the turn
EnviarATodosPaso ==
    /\ pc = "todos"
    /\ fase = "bucle"
    /\ idx <= Len(notificadores)
    /\ LET n   == notificadores[idx]
           err == ValidacionInterna(n, dest, msg)
       IN /\ invocados' = Append(invocados, n)
          /\ IF err # NilErr
             THEN /\ EnvioRechazado(n, dest, msg, err)
                  /\ resultados' = AnotarResultado(resultados, n, err)
                  /\ bitacora' = bitacora \o LineasDelServicio(n, err)
                  /\ idx' = SiguienteTrasEnvio(idx, err)
             ELSE /\ EntrarEnvio(n, dest, msg)
                  /\ UNCHANGED <<resultados, idx>>
    /\ UNCHANGED <<notificadores, logger, reloj, pc, dest, msg, retorno, historial,
                   alInicio>>

\* ---------------------------------------------------- EnviarConValidacion
EnviarConValidacionInicio(destinatario, mensaje) ==
    /\ pc = "idle"
    /\ enviosHechos + Len(notificadores) <= MaxEnvios
    /\ pc' = "validacion"
    /\ idx' = 1
    /\ dest' = destinatario
    /\ msg' = mensaje
    /\ resultados' = MapaVacio
    /\ invocados' = <<>>
    /\ alInicio' = registros
    /\ bitacora' = <<>>
    /\ UNCHANGED <<notificadores, logger, registros, reloj, fase, actual,
                   regActual, retorno, envio, historial, consulta, enviosHechos>>

\* as ValidacionPrevia, but without the check of the destination
ValidacionPreviaSoloMensaje(n, destinatario, mensaje) ==
    IF ~ImplementaValidador(n) THEN NilErr
    ELSE IF ValidarMensaje(n, mensaje) # NilErr
         THEN ErrValidacionFallo(ValidarMensaje(n, mensaje))
    ELSE NilErr

\* as ValidacionPrevia, but without the check of the message
ValidacionPreviaSoloDestinatario(n, destinatario, mensaje) ==
    IF ~ImplementaValidador(n) THEN NilErr
    ELSE IF ValidarDestinatario(n, destinatario) # NilErr
         THEN ErrDestinatarioInvalido(ValidarDestinatario(n, destinatario))
    ELSE NilErr

\* the outcome the validation block of EnviarConValidacion stores for n, or
\* NilErr when it stores none and goes on to EnviarNotificacion
ValidacionPrevia(n, destinatario, mensaje) ==
    IF ~ImplementaValidador(n) THEN NilErr
    ELSE IF ValidarMensaje(n, mensaje) # NilErr
         THEN ErrValidacionFallo(ValidarMensaje(n, mensaje))
    ELSE IF ValidarDestinatario(n, destinatario) # NilErr
         THEN ErrDestinatarioInvalido(ValidarDestinatario(n, destinatario))
    ELSE NilErr

\* one turn of the loop of EnviarConValidacion: `continue` after a failed
\* validation, else as far as the Sleep of EnviarNotificacion
EnviarConValidacionPaso ==
    /\ pc = "validacion"
    /\ fase = "bucle"
    /\ idx <= Len(notificadores)
    /\ LET n    == notificadores[idx]
           prev == ValidacionPrevia(n, dest, msg)
           err  == ValidacionInterna(n, dest, msg)
       IN IF prev # NilErr
          THEN /\ resultados' = AnotarResultado(resultados, n, prev)
               /\ idx' = idx + 1
               /\ UNCHANGED <<registros, actual, regActual, fase, enviosHechos,
                              envio, consulta, invocados, bitacora>>
          ELSE /\ invocados' = Append(invocados, n)
               /\ IF err # NilErr
                  THEN /\ EnvioRechazado(n, dest, msg, err)
                       /\ resultados' = AnotarResultado(resultados, n, err)
                       /\ idx' = SiguienteTrasEnvio(idx, err)
                       /\ UNCHANGED bitacora
                  ELSE /\ EntrarEnvio(n, dest, msg)
                       /\ UNCHANGED <<resultados, idx>>
    /\ UNCHANGED <<notificadores, logger, reloj, pc, dest, msg, retorno, historial,
                   alInicio>>

\* ------------------------------------------- leaving EnviarNotificacion
\* The part of EnviarNotificacion from its Sleep on: the clock has advanced
\* by the latency and a jitter, the simulated outcome is read off the clock,
\* the record reaches its final state, and the caller takes the error.
EnvioCompletar(jitter) ==
    /\ fase = "envio"
    /\ LET n     == actual
           t     == reloj + Latencia(n) + jitter
           falla == FalloSimulado(n, t)
           err   == IF falla THEN ErrorDeEnvio(n) ELSE NilErr
           lin   == bitacora \o LineasAlTerminar(n, regActual, falla)
       IN /\ reloj' = t
          /\ registros' = RegistrosTrasEnviar(n, regActual, falla)
          /\ envio' = [envio EXCEPT !.fin = TRUE, !.err = err]
          /\ historial' = IF ImplementaRastreador(n)
                          THEN historial \cup {[n |-> n, id |-> regActual, err |-> err]}
                          ELSE historial
          /\ fase' = "bucle"
          /\ actual' = Nil
          /\ regActual' = NoId
          /\ CASE pc = "todos" ->
                    /\ resultados' = AnotarResultado(resultados, n, err)
                    /\ bitacora' = lin \o LineasDelServicio(n, err)
                    /\ idx' = SiguienteTrasEnvio(idx, err)
                    /\ UNCHANGED <<pc, retorno>>
               [] pc = "validacion" ->
                    /\ resultados' = AnotarResultado(resultados, n, err)
                    /\ bitacora' = lin
                    /\ idx' = SiguienteTrasEnvio(idx, err)
                    /\ UNCHANGED <<pc, retorno>>
               [] OTHER ->
                    /\ retorno' = [op |-> "enviar", n |-> n, valor |-> err]
                    /\ bitacora' = lin
                    /\ UNCHANGED <<pc, resultados, idx>>
    /\ UNCHANGED <<notificadores, logger, dest, msg, invocados, consulta,
                   alInicio,
                   enviosHechos>>

\* The call in progress returns to its caller: EnviarATodos and
\* EnviarConValidacion at `return resultados`, once the loop has ended.  The
\* frame of the call and what it printed are dropped.
Retornar ==
    /\ pc # "idle"
    /\ fase = "bucle"
    /\ pc \in {"todos", "validacion"} => idx > Len(notificadores)
    /\ pc' = "idle"
    /\ idx' = 1
    /\ dest' = DestVacio
    /\ msg' = MsgVacio
    /\ resultados' = MapaVacio
    /\ retorno' = SinRetorno
    /\ bitacora' = <<>>
    /\ invocados' = <<>>
    /\ envio' = SinEnvio
    /\ alInicio' = [n \in Rastreadores |-> MapaVacio]
    /\ UNCHANGED <<notificadores, logger, registros, reloj, fase, actual,
                   regActual, historial, consulta, enviosHechos>>

\* --------------------------------- calls made on a backend directly (main)
EnviarNotificacion(n, destinatario, mensaje) ==
    /\ pc = "idle"
    /\ enviosHechos < MaxEnvios
    /\ LET err == ValidacionInterna(n, destinatario, mensaje)
       IN IF err # NilErr
          THEN /\ EnvioRechazado(n, destinatario, mensaje, err)
               /\ retorno' = [op |-> "enviar", n |-> n, valor |-> err]
               /\ UNCHANGED bitacora
          ELSE /\ EntrarEnvio(n, destinatario, mensaje)
               /\ UNCHANGED retorno
    /\ pc' = "directo"
    /\ UNCHANGED <<notificadores, logger, reloj, idx, dest, msg, resultados,
                   invocados, historial, alInicio>>

LlamarObtenerEstado(n, id) ==
    /\ pc = "idle"
    /\ retorno' = [op |-> "estado", n |-> n, id |-> id, valor |-> ObtenerEstado(n, id)]
    /\ pc' = "estado"
    /\ UNCHANGED <<notificadores, logger, registros, reloj, fase, idx, dest,
                   msg, resultados, actual, regActual, bitacora, invocados, envio,
                   historial, consulta, alInicio,
                   enviosHechos>>

\* as LlamarObtenerEstadisticas, but the stats map is kept between calls and
\* counted into again
LlamarObtenerEstadisticasAcumulando(n) ==
    LET ahora == ObtenerEstadisticas(n)
        suma  == IF consulta.n = n
                 THEN [k \in DOMAIN ahora |->
                          consulta.valores[Len(consulta.valores)][k] + ahora[k]]
                 ELSE ahora
    IN /\ pc = "idle"
       /\ retorno' = [op |-> "stats", n |-> n, valor |-> suma]
       /\ consulta' = [n |-> n,
                       valores |-> IF consulta.n = n
                                   THEN <<consulta.valores[Len(consulta.valores)], suma>>
                                   ELSE <<suma>>]
       /\ pc' = "stats"
       /\ UNCHANGED <<notificadores, logger, registros, reloj, fase, idx, dest,
                      msg, resultados, actual, regActual, bitacora, invocados,
                      envio, historial, alInicio, enviosHechos>>

LlamarObtenerEstadisticas(n) ==
    /\ pc = "idle"
    /\ retorno' = [op |-> "stats", n |-> n, valor |-> ObtenerEstadisticas(n)]
    /\ consulta' = [n |-> n,
                    valores |-> IF consulta.n = n
                                THEN <<consulta.valores[Len(consulta.valores)],
                                       ObtenerEstadisticas(n)>>
                                ELSE <<ObtenerEstadisticas(n)>>]
    /\ pc' = "stats"
    /\ UNCHANGED <<notificadores, logger, registros, reloj, fase, idx, dest,
                   msg, resultados, actual, regActual, bitacora, invocados, envio,
                   historial, alInicio,
                   enviosHechos>>

\* the ids a caller can ask about: those of the records made so far, and one
\* that no record has
IdsConocidos(n) == {h.id : h \in {x \in historial : x.n = n}} \cup {IdRegistro(n, 1)}

Next ==
    \/ \E n \in Instancias : AgregarNotificador(n)
    \/ \E l \in Loggers \cup {Nil} : EstablecerLogger(l)
    \/ \E d \in Destinatarios, m \in Mensajes : EnviarATodosInicio(d, m)
    \/ EnviarATodosPaso
    \/ \E d \in Destinatarios, m \in Mensajes : EnviarConValidacionInicio(d, m)
    \/ EnviarConValidacionPaso
    \/ \E j \in Jitters : EnvioCompletar(j)
    \/ Retornar
    \/ \E n \in Instancias : EnviarNotificacion(n, DestUsuarioX, MsgHi)
    \/ \E n \in Rastreadores : \E id \in IdsConocidos(n) : LlamarObtenerEstado(n, id)
    \/ \E n \in Rastreadores : LlamarObtenerEstadisticas(n)

Spec == Init /\ [][Next]_vars

\* the next step of a call in progress: a loop turn, the end of a time.Sleep,
\* or the return
Avanzar ==
    \/ EnviarATodosPaso
    \/ EnviarConValidacionPaso
    \/ \E j \in Jitters : EnvioCompletar(j)
    \/ Retornar

\* The program is one goroutine that keeps running: a call in progress takes
\* its next step.
SpecJusta == Init /\ [][Next]_vars /\ WF_vars(Avanzar)

\* =================================================================== claims
\* the dispatch call `op` has left its loop and is at `return resultados`
AlRetornar(op) == pc = op /\ fase = "bucle" /\ idx > Len(notificadores)

\* how many times n occurs in the sequence sec
Veces(n, sec) == Cardinality({k \in 1..Len(sec) : sec[k] = n})

EstaEn(n, sec) == Veces(n, sec) > 0

TiposRegistrados == {TipoNombre(notificadores[k]) : k \in 1..Len(notificadores)}

\* C1: the mapping EnviarATodos returns has as many entries as there are
\* distinct type names among the registered backends, and an entry for every
\* registered backend, whether its EnviarNotificacion succeeded or failed.
C1_UnaEntradaPorTipo ==
    AlRetornar("todos") =>
        /\ Cardinality(DOMAIN resultados) = Cardinality(TiposRegistrados)
        /\ \A k \in 1..Len(notificadores) :
               TipoNombre(notificadores[k]) \in DOMAIN resultados

\* two registrations of one type, one entry, and that entry a failure
C1_Testigo ==
    /\ AlRetornar("todos")
    /\ Len(notificadores) = 2
    /\ Cardinality(DOMAIN resultados) = 1
    /\ \E t \in DOMAIN resultados : resultados[t] # NilErr

\* C2: in one EnviarATodos call EnviarNotificacion is invoked once on every
\* registered backend, in registration order, and an error returned by an
\* earlier backend never keeps a later one from being invoked and recorded.
C2_TodosEnOrden ==
    pc = "todos" =>
        /\ Len(invocados) = IF fase = "envio" THEN idx ELSE idx - 1
        /\ Len(invocados) <= Len(notificadores)
        /\ invocados = SubSeq(notificadores, 1, Len(invocados))
        /\ \A k \in 1..(idx - 1) :
               TipoNombre(notificadores[k]) \in DOMAIN resultados
        /\ AlRetornar("todos") => invocados = notificadores

\* the first of two backends failed and the second was invoked and recorded
C2_Testigo ==
    /\ AlRetornar("todos")
    /\ Len(notificadores) = 2
    /\ TipoNombre(notificadores[1]) # TipoNombre(notificadores[2])
    /\ resultados[TipoNombre(notificadores[1])] # NilErr
    /\ invocados = notificadores
    /\ TipoNombre(notificadores[2]) \in DOMAIN resultados

LimiteDe(n)   == IF Tipo(n) = Email THEN LimiteMensajeEmail ELSE LimiteMensajeSMS
ErrLargoDe(n) == IF Tipo(n) = Email THEN ErrMensajeLargo ELSE ErrSMSLargo

\* C3: for a backend with validation and a message longer than its limit
\* (1000 for email, 160 for SMS), EnviarConValidacion records a validation
\* failure for that backend, and the backend's store holds after the call
\* exactly the records it held before it.
C3_MensajeLargoSinRegistro ==
    pc = "validacion" =>
        \A n \in Instancias :
            (ImplementaValidador(n) /\ Len(msg) > LimiteDe(n)) =>
                /\ registros[n] = alInicio[n]
                /\ \A k \in 1..(idx - 1) :
                       notificadores[k] = n =>
                           resultados[TipoNombre(n)] = ErrValidacionFallo(ErrLargoDe(n))

\* a 161-byte message: refused for the SMS backend, sent by the email backend
C3_Testigo ==
    /\ AlRetornar("validacion")
    /\ msg = MsgLargoSMS
    /\ notificadores = <<"email1", "sms1">>
    /\ resultados[TipoNombre("sms1")] = ErrValidacionFallo(ErrSMSLargo)
    /\ registros["sms1"] = alInicio["sms1"]
    /\ registros["email1"] # alInicio["email1"]

\* the outcomes EnviarNotificacion itself can give for input it accepts
ResultadosDeEnvio(n) == IF Tipo(n) = Slack THEN {NilErr} ELSE {NilErr, ErrorDeEnvio(n)}

Acepta(n, destinatario, mensaje) ==
    \/ ~ImplementaValidador(n)
    \/ /\ ValidarDestinatario(n, destinatario) = NilErr
       /\ ValidarMensaje(n, mensaje) = NilErr

\* the claim of C5 as the spec words it: every finished EnviarNotificacion
\* call has made exactly one new record in the backend's store
C5_Original ==
    (envio.n # Nil /\ envio.fin) => Tamano(envio.n) = envio.antes + 1

\* C5 (amended): an EnviarNotificacion call on the email or SMS backend whose
\* input the backend's checks accept makes one delivery attempt and has, when
\* it returns, added exactly one record to that backend's store, in state
\* enviada or fallida; a call whose input is refused, and every call on the
\* Slack backend, adds none.
C5_UnRegistroPorEnvioAceptado ==
    (envio.n # Nil /\ envio.fin) =>
        IF ImplementaRastreador(envio.n)
           /\ Acepta(envio.n, envio.destinatario, envio.mensaje)
        THEN /\ Tamano(envio.n) = envio.antes + 1
             /\ envio.id \in DOMAIN registros[envio.n]
             /\ registros[envio.n][envio.id].Estado \in {Enviada, Fallida}
             /\ registros[envio.n][envio.id].Estado = Fallida <=> envio.err # NilErr
             /\ registros[envio.n][envio.id].Intentos = IntentosInicial
        ELSE /\ Tamano(envio.n) = envio.antes
             /\ envio.id = NoId

\* a second record of a backend, made by a call whose attempt failed
C5_Testigo ==
    /\ envio.n # Nil
    /\ envio.fin
    /\ envio.id # NoId
    /\ envio.antes = 1
    /\ Tamano(envio.n) = 2
    /\ registros[envio.n][envio.id].Estado = Fallida

EstadoEsperado(h) == <<IF h.err = NilErr THEN Enviada ELSE Fallida, NilErr>>

\* C6: for every record made by a finished EnviarNotificacion call on the
\* email or SMS backend, ObtenerEstado with the record's id succeeds and
\* returns the final state of that call: enviada exactly when the call
\* returned no error, fallida exactly when the attempt failed, never pendiente.
C6_EstadoDelRegistro ==
    /\ \A h \in historial : ObtenerEstado(h.n, h.id) = EstadoEsperado(h)
    /\ pc = "estado" =>
           \A h \in historial :
               (h.n = retorno.n /\ h.id = retorno.id) =>
                   /\ retorno.valor = EstadoEsperado(h)
                   /\ retorno.valor[1] # Pendiente

\* ObtenerEstado has just returned fallida for the record of a failed call
C6_Testigo ==
    /\ pc = "estado"
    /\ retorno.valor = <<Fallida, NilErr>>
    /\ \E h \in historial :
           h.n = retorno.n /\ h.id = retorno.id /\ h.err # NilErr

EstadisticasDe(n, regs) ==
    IF Tipo(n) = Email THEN EmailObtenerEstadisticas(regs)
    ELSE SMSObtenerEstadisticas(regs)

EnviadasDe(n, st) == IF Tipo(n) = Email THEN st.enviadas ELSE st.enviados
FallidasDe(n, st) == IF Tipo(n) = Email THEN st.fallidas ELSE st.fallidos

EnviosDe(n) == {h \in historial : h.n = n}

\* C7: while no EnviarNotificacion is in progress on a backend, its
\* ObtenerEstadisticas reports total = enviadas + fallidas + pendientes with
\* pendientes = 0, total the number of finished attempts and fallidas the
\* number of failed ones; and an EnviarATodos call the backend, registered
\* once, accepts adds one to total and, when the attempt fails, one to
\* fallidas: a backend all of whose n attempts failed reports fallidas = n,
\* pendientes = 0, total = n.
C7_Estadisticas ==
    /\ \A n \in Rastreadores :
           (fase = "bucle" \/ actual # n) =>
               LET st == ObtenerEstadisticas(n)
               IN /\ st.pendientes = 0
                  /\ st.total = EnviadasDe(n, st) + FallidasDe(n, st) + st.pendientes
                  /\ st.total = Cardinality(EnviosDe(n))
                  /\ FallidasDe(n, st) =
                         Cardinality({h \in EnviosDe(n) : h.err # NilErr})
    /\ AlRetornar("todos") =>
           \A n \in Rastreadores :
               (Veces(n, notificadores) = 1 /\ Acepta(n, dest, msg)) =>
                   LET antes == EstadisticasDe(n, alInicio[n])
                       st    == ObtenerEstadisticas(n)
                       err   == resultados[TipoNombre(n)]
                   IN /\ st.total = antes.total + 1
                      /\ err # NilErr =>
                             /\ FallidasDe(n, st) = FallidasDe(n, antes) + 1
                             /\ EnviadasDe(n, st) = EnviadasDe(n, antes)
                      /\ (err # NilErr /\ FallidasDe(n, antes) = antes.total) =>
                             /\ FallidasDe(n, st) = st.total
                             /\ st.pendientes = 0

\* the second EnviarATodos call to an email backend whose attempts all failed
C7_Testigo ==
    /\ AlRetornar("todos")
    /\ notificadores = <<"email1">>
    /\ resultados[TipoNombre("email1")] = ErrFalloEmail
    /\ EstadisticasDe("email1", alInicio["email1"]).fallidas = 1
    /\ ObtenerEstadisticas("email1") =
           [total |-> 2, enviadas |-> 0, fallidas |-> 2, pendientes |-> 0]

\* the first scenario of the spec: a Slack backend and the email backend,
\* EnviarConValidacion("user@x.com", "hi") at its return
Escenario1 ==
    /\ AlRetornar("validacion")
    /\ dest = DestUsuarioX
    /\ msg = MsgHi
    /\ notificadores \in {<<"slack1", "email1">>, <<"email1", "slack1">>}

Alcanzados == IF fase = "envio" THEN idx ELSE idx - 1

C10_ConsultasSinEfecto ==
    /\ [](consulta.n # Nil =>
             /\ Len(consulta.valores) = 2 => consulta.valores[1] = consulta.valores[2]
             /\ consulta.valores[Len(consulta.valores)] = ObtenerEstadisticas(consulta.n))
    /\ [][(pc = "idle" /\ pc' \in {"stats", "estado"}) => registros' = registros]_vars

\* a second ObtenerEstadisticas call on a backend that holds a record
C10_Testigo ==
    /\ pc = "stats"
    /\ consulta.n = retorno.n
    /\ Len(consulta.valores) = 2
    /\ consulta.valores[2].total >= 1

\* C11: a record is created pendiente; its state changes only from pendiente
\* to enviada or to fallida and never after that; no record is ever
\* entregada; a record once in a store stays in it.
C11_CicloDeVida ==
    /\ [](\A n \in Rastreadores : \A id \in DOMAIN registros[n] :
             registros[n][id].Estado \in {Pendiente, Enviada, Fallida})
    /\ [][\A n \in Rastreadores :
             /\ \A id \in DOMAIN registros[n] :
                   /\ id \in DOMAIN registros'[n]
                   /\ registros'[n][id].Estado # registros[n][id].Estado =>
                         /\ registros[n][id].Estado = Pendiente
                         /\ registros'[n][id].Estado \in {Enviada, Fallida}
             /\ \A id \in (DOMAIN registros'[n]) \ (DOMAIN registros[n]) :
                   registros'[n][id].Estado = Pendiente]_vars

\* a store holding a record that ended fallida and a later one still pendiente
C11_Testigo ==
    \E n \in Rastreadores :
        \A e \in {Pendiente, Fallida} :
            \E id \in DOMAIN registros[n] : registros[n][id].Estado = e

\* C12: an attempt that fails inside EnviarNotificacion leaves its record
\* fallida with a non-empty Error and returns an error; an attempt that
\* returns nil leaves neither; and a record has a non-empty Error only if
\* it is fallida.
C12_ErrorSoloSiFallida ==
    /\ \A n \in Rastreadores : \A id \in DOMAIN registros[n] :
          registros[n][id].Error # "" => registros[n][id].Estado = Fallida
    /\ \A h \in historial :
          LET r == registros[h.n][h.id]
          IN (h.err # NilErr) <=> (r.Estado = Fallida /\ r.Error # "")

\* an attempt that failed after its Sleep
C12_Testigo ==
    \E h \in historial :
        /\ h.err = ErrorDeEnvio(h.n)
        /\ registros[h.n][h.id].Estado = Fallida

\* C13: the id EnviarNotificacion makes from the clock is not yet a key of
\* the backend's store: the call that creates a record leaves every earlier
\* record as it was and makes the store one larger.
C13_IdsUnicos ==
    [][(fase = "bucle" /\ fase' = "envio" /\ ImplementaRastreador(actual')) =>
          LET n == actual'
          IN /\ regActual' \notin DOMAIN registros[n]
             /\ Cardinality(DOMAIN registros'[n]) = Cardinality(DOMAIN registros[n]) + 1
             /\ \A id \in DOMAIN registros[n] : registros'[n][id] = registros[n][id]]_vars

\* a second record has been created in a store that already held one
C13_Testigo ==
    /\ fase = "envio"
    /\ ImplementaRastreador(actual)
    /\ envio.antes >= 1
    /\ regActual \in DOMAIN registros[actual]

\* C14: every EnviarATodos and EnviarConValidacion call returns, and when it
\* returns the loop has taken its turn for every registered backend and the
\* map holds an outcome under the type name of each of them.
C14_TerminaCompleto ==
    /\ (pc \in {"todos", "validacion"}) ~> (pc = "idle")
    /\ [][(pc \in {"todos", "validacion"} /\ pc' = "idle") =>
             /\ idx = Len(notificadores) + 1
             /\ \A k \in 1..Len(notificadores) :
                   TipoNombre(notificadores[k]) \in DOMAIN resultados]_vars

\* EnviarConValidacion at its return with two backends, one refused by the
\* validation and one sent to
C14_Testigo ==
    /\ AlRetornar("validacion")
    /\ Len(notificadores) = 2
    /\ Len(invocados) = 1
    /\ Cardinality(DOMAIN resultados) = 2

\* C15: a step changes the store of a backend only inside that backend's own
\* EnviarNotificacion, and no step of an EnviarATodos or EnviarConValidacion
\* call, from its first to its return, changes sn.notificadores or sn.logger.
C15_CadaUnoSuAlmacen ==
    [][/\ \A n \in Rastreadores :
              registros'[n] # registros[n] =>
                  \/ fase = "bucle" /\ fase' = "envio" /\ actual' = n
                  \/ fase = "envio" /\ fase' = "bucle" /\ actual = n
       /\ (pc \in {"todos", "validacion"} \/ pc' \in {"todos", "validacion"}) =>
              /\ notificadores' = notificadores
              /\ logger' = logger]_vars

\* a dispatch call with a shared logger inside the EnviarNotificacion of its
\* second backend, after the first, another backend, has stored a record
C15_Testigo ==
    /\ pc \in {"todos", "validacion"}
    /\ logger # Nil
    /\ fase = "envio"
    /\ idx = 2
    /\ ImplementaRastreador(actual)
    /\ ImplementaRastreador(notificadores[1])
    /\ notificadores[1] # actual
    /\ registros[notificadores[1]] # alInicio[notificadores[1]]

\* a line by which the service reports the outcome of a backend: its text
\* begins with the type name of the backend
EsLineaDeResultado(l) == l[3][1] \in {TipoNombre(n) : n \in Instancias}

LineasDeResultado == SelectSeq(bitacora, EsLineaDeResultado)

\* the calls of EnviarNotificacion of the dispatch call in progress that
\* have returned
EnviosTerminados == Len(invocados) - (IF fase = "envio" THEN 1 ELSE 0)

\* with a logger set, one outcome line per finished EnviarNotificacion, in
\* order, on the logger, ERROR for an error and INFO for nil, the last line
\* printed being that of the call that has just returned
UnaLineaPorEnvio ==
    /\ Len(LineasDeResultado) = EnviosTerminados
    /\ \A k \in 1..Len(LineasDeResultado) :
          LET l == LineasDeResultado[k]
          IN /\ l[1] = logger
             /\ l[3][1] = TipoNombre(invocados[k])
             /\ l[2] \in {"ERROR", "INFO"}
             /\ (l[2] = "ERROR") <=> (l[3][2] = " fallo: ")
             /\ (l[2] = "INFO") <=> (l[3][2] = " exito")
    /\ (fase = "bucle" /\ invocados # <<>>) =>
          /\ envio.n = invocados[Len(invocados)]
          /\ bitacora[Len(bitacora)] =
                LogLinea(logger, IF envio.err # NilErr THEN "ERROR" ELSE "INFO",
                         IF envio.err # NilErr
                         THEN <<TipoNombre(envio.n), " fallo: ">> \o envio.err
                         ELSE <<TipoNombre(envio.n), " exito">>)

\* C16 as stated: in EnviarATodos and in EnviarConValidacion alike, with a
\* logger set every EnviarNotificacion is followed by one line on the logger
\* reporting its outcome, and with none set there is no such line.
C16_Original ==
    pc \in {"todos", "validacion"} =>
        IF logger # Nil THEN UnaLineaPorEnvio ELSE LineasDeResultado = <<>>

\* C16, amended: that holds of EnviarATodos; EnviarConValidacion never calls
\* the logger, set or not.
C16_LoggerSoloEnEnviarATodos ==
    /\ pc = "todos" =>
          IF logger # Nil THEN UnaLineaPorEnvio ELSE LineasDeResultado = <<>>
    /\ pc = "validacion" =>
          /\ LineasDeResultado = <<>>
          /\ \A k \in 1..Len(bitacora) : bitacora[k][1] \in {invocados[j] : j \in 1..Len(invocados)}

\* EnviarATodos at its return with a logger set, after one backend failed
\* and one succeeded
C16_Testigo ==
    /\ AlRetornar("todos")
    /\ logger # Nil
    /\ Len(invocados) = 2
    /\ LineasDeResultado[1][2] = "ERROR"
    /\ LineasDeResultado[2][2] = "INFO"

\* the outcome of the loop turn that has just ended, for backend n: the
\* failed validation of EnviarConValidacion, else what EnviarNotificacion
\* returned
UltimaSalida(n) ==
    IF pc = "validacion" /\ ValidacionPrevia(n, dest, msg) # NilErr
    THEN ValidacionPrevia(n, dest, msg)
    ELSE envio.err

\* C17: each loop turn of a dispatch call stores its outcome under the type
\* name of its backend and leaves the other keys alone, so the map holds one
\* entry per type name, that of the last backend of that type so far, while
\* EnviarNotificacion has been called on every backend the validation let
\* through, registered twice or not.
C17_UltimoGana ==
    /\ []((pc \in {"todos", "validacion"} /\ fase = "bucle") =>
            /\ DOMAIN resultados = {TipoNombre(notificadores[k]) : k \in 1..(idx - 1)}
            /\ idx > 1 =>
                  resultados[TipoNombre(notificadores[idx - 1])] =
                      UltimaSalida(notificadores[idx - 1])
            /\ invocados = SelectSeq(SubSeq(notificadores, 1, idx - 1),
                                     LAMBDA n : pc = "todos"
                                                \/ ValidacionPrevia(n, dest, msg) = NilErr))
    /\ [][(pc \in {"todos", "validacion"} /\ idx' = idx + 1) =>
             \A t \in (DOMAIN resultados) \ {TipoNombre(notificadores[idx])} :
                 /\ t \in DOMAIN resultados'
                 /\ resultados'[t] = resultados[t]]_vars

\* EnviarATodos at its return with one backend registered twice: both records
\* were made in this call, the first attempt failed, and the one entry of the
\* map is the nil of the second
C17_Testigo ==
    /\ AlRetornar("todos")
    /\ Len(notificadores) = 2
    /\ TipoNombre(notificadores[1]) = TipoNombre(notificadores[2])
    /\ ImplementaRastreador(notificadores[1])
    /\ invocados = notificadores
    /\ Cardinality(DOMAIN resultados) = 1
    /\ resultados[TipoNombre(notificadores[2])] = NilErr
    /\ \E id \in (DOMAIN registros[notificadores[1]]) \ (DOMAIN alInicio[notificadores[1]]) :
          /\ registros[notificadores[1]][id].Estado = Fallida
          /\ id # envio.id

\* an outcome stored by the validation block of EnviarConValidacion
EsFalloDeValidacion(err) ==
    err # NilErr /\ err[1] \in {"validacion fallo: ", "destinatario invalido: "}

\* C18: in EnviarConValidacion the EnviarNotificacion of a backend that
\* validates is reached only with input its own checks accept, so it always
\* creates a record; at every loop head the store of such a backend has
\* gained one record for each turn taken for it if its outcome is not a
\* failed validation, and none if it is.
C18_ValidadoEntoncesRegistrado ==
    pc = "validacion" =>
        /\ (envio.n # Nil /\ ImplementaValidador(envio.n)) =>
              /\ envio.id # NoId
              /\ ValidacionInterna(envio.n, dest, msg) = NilErr
        /\ fase = "bucle" =>
              \A k \in 1..(idx - 1) :
                  LET n == notificadores[k]
                  IN ImplementaValidador(n) =>
                        Cardinality(DOMAIN registros[n])
                            - Cardinality(DOMAIN alInicio[n])
                        = IF EsFalloDeValidacion(resultados[TipoNombre(n)])
                          THEN 0
                          ELSE Veces(n, SubSeq(notificadores, 1, idx - 1))

\* EnviarConValidacion at its return with two backends that validate: one
\* was refused and its store is as it was, the other has one record more
C18_Testigo ==
    /\ AlRetornar("validacion")
    /\ Len(notificadores) = 2
    /\ \E i, j \in 1..2 :
          LET a == notificadores[i]
              b == notificadores[j]
          IN /\ ImplementaValidador(a) /\ ImplementaValidador(b)
             /\ EsFalloDeValidacion(resultados[TipoNombre(a)])
             /\ registros[a] = alInicio[a]
             /\ ~EsFalloDeValidacion(resultados[TipoNombre(b)])
             /\ Cardinality(DOMAIN registros[b]) = Cardinality(DOMAIN alInicio[b]) + 1

\* message and destination both break the rules of backend n
AmbosInvalidos(n) ==
    ValidarMensaje(n, msg) # NilErr /\ ValidarDestinatario(n, dest) # NilErr

\* C19: for a backend that validates, when message and destination are both
\* invalid EnviarConValidacion stores the wrapped error of the message and
\* EnviarATodos stores the error of the destination; and each of the two
\* refuses an input exactly when the checks of the other refuse it.
C19_MismoRechazoOtraRazon ==
    (pc \in {"todos", "validacion"} /\ fase = "bucle" /\ idx > 1) =>
        LET n   == notificadores[idx - 1]
            out == resultados[TipoNombre(n)]
        IN ImplementaValidador(n) =>
              /\ pc = "todos" =>
                    /\ AmbosInvalidos(n) => out = ValidarDestinatario(n, dest)
                    /\ (envio.id = NoId) <=> (ValidacionPrevia(n, dest, msg) # NilErr)
                    /\ envio.id = NoId => out \notin ResultadosDeEnvio(n)
              /\ pc = "validacion" =>
                    /\ AmbosInvalidos(n) =>
                          out = ErrValidacionFallo(ValidarMensaje(n, msg))
                    /\ EsFalloDeValidacion(out) <=>
                          (ValidacionInterna(n, dest, msg) # NilErr)
                    /\ ~EsFalloDeValidacion(out) => out \in ResultadosDeEnvio(n)

\* EnviarATodos after the turn of a backend that validates, with message and
\* destination both invalid for it
C19_Testigo ==
    /\ pc = "todos"
    /\ fase = "bucle"
    /\ idx > 1
    /\ ImplementaValidador(notificadores[idx - 1])
    /\ AmbosInvalidos(notificadores[idx - 1])
    /\ resultados[TipoNombre(notificadores[idx - 1])] # ValidarMensaje(notificadores[idx - 1], msg)

====
